---- MODULE Spec2Model ----
(***************************************************************************)
(* Command routing and per-user session state machine of the job-hunting   *)
(* Telegram bot: src/bot/telegram_handler.py drives the LangGraph agent    *)
(* (src/agent/graph.py) whose nodes live in src/agent/nodes/.              *)
(*                                                                         *)
(* Texts are sequences of whitespace-free tokens (what str.split yields);  *)
(* joining with single spaces is then injective, so a token sequence       *)
(* stands for the joined string.  Optional values are sequences of length  *)
(* at most one: None is <<>> and a present value v is <<v>>.               *)
(***************************************************************************)
EXTENDS Integers, Sequences, FiniteSets, TLC

VARIABLES user_states, resume_files, last, inflight

vars == <<user_states, resume_files, last, inflight>>

(***************************************************************************)
(* Bounds of the model.                                                    *)
(***************************************************************************)
MaxHistory == 2

(***************************************************************************)
(* Program constants.                                                      *)
(***************************************************************************)
ChunkLimit == 4000
TopN == 10
RemotiveLimit == 10
StopSearchAt == 15
AppendCap == 20
MaxVariations == 5
ResumeCut == 2000
CoverCut == 1500

(***************************************************************************)
(* Optional values and small helpers.                                      *)
(***************************************************************************)
None == <<>>
Some(v) == <<v>>
IsNone(o) == o = <<>>
Min(a, b) == IF a <= b THEN a ELSE b

IsPrefix(s, t) == Len(s) <= Len(t) /\ SubSeq(t, 1, Len(s)) = s

Take(s, n) == SubSeq(s, 1, Min(n, Len(s)))

RECURSIVE Links(_)
Links(jobs) == IF jobs = <<>> THEN {} ELSE {jobs[1].link} \cup Links(Tail(jobs))

(***************************************************************************)
(* Tokens: str.lower, str.startswith and int() on the tokens in use.       *)
(***************************************************************************)
Lower(t) ==
    CASE t = "/Search" -> "/search"
      [] t = "Remote" -> "remote"
      [] t = "Python" -> "python"
      [] OTHER -> t

LowerAll(text) == [i \in 1..Len(text) |-> Lower(text[i])]

IntTokens ==
    {"-1", "0", "1", "2", "3", "+1", "4", "5", "6", "7", "8", "9", "10", "11",
     "12", "13", "14", "15", "16"}

IsIntTok(t) == t \in IntTokens

IntOf(t) ==
    CASE t = "-1" -> -1
      [] t = "0" -> 0
      [] t = "1" -> 1
      [] t = "+1" -> 1
      [] t = "2" -> 2
      [] t = "3" -> 3
      [] t = "4" -> 4
      [] t = "5" -> 5
      [] t = "6" -> 6
      [] t = "7" -> 7
      [] t = "8" -> 8
      [] t = "9" -> 9
      [] t = "10" -> 10
      [] t = "11" -> 11
      [] t = "12" -> 12
      [] t = "13" -> 13
      [] t = "14" -> 14
      [] t = "15" -> 15
      [] t = "16" -> 16
      [] OTHER -> 0

StrOf(n) ==
    CASE n = -1 -> "-1"
      [] n = 0 -> "0"
      [] n = 1 -> "1"
      [] n = 2 -> "2"
      [] n = 3 -> "3"
      [] n = 4 -> "4"
      [] n = 5 -> "5"
      [] n = 6 -> "6"
      [] n = 7 -> "7"
      [] n = 8 -> "8"
      [] n = 9 -> "9"
      [] n = 10 -> "10"
      [] n = 11 -> "11"
      [] n = 12 -> "12"
      [] n = 13 -> "13"
      [] n = 14 -> "14"
      [] n = 15 -> "15"
      [] n = 16 -> "16"
      [] OTHER -> "0"

\* text.startswith(cmd) for a text whose first token is a command word
StartsWith(text, cmd) == text # <<>> /\ text[1] = cmd

\* text.replace(cmd, "").strip().split()
ArgsOf(text, cmd) == SelectSeq(text, LAMBDA t : t # cmd)

location_keywords == {"remote", "hybrid", "onsite"}

(***************************************************************************)
(* Messages of the conversation history.                                   *)
(***************************************************************************)
HumanMessage(text) == [role |-> "human", content |-> text]

(***************************************************************************)
(* Responses: the kind of text, the number it quotes, its length.          *)
(***************************************************************************)
Resp(kind, n, len) == [kind |-> kind, n |-> n, len |-> len, items |-> <<>>]

NoResp == Resp("", 0, 0)

HELP_MESSAGE == Resp("HELP_MESSAGE", 0, 947)
START_MESSAGE == Resp("START_MESSAGE", 0, 288)

(***************************************************************************)
(* agent/state.py                                                          *)
(***************************************************************************)
create_initial_state(user_id) ==
    [telegram_user_id |-> user_id,
     base_resume |-> None,
     search_query |-> None,
     location |-> None,
     jobs_found |-> <<>>,
     selected_job_index |-> None,
     selected_job |-> None,
     customized_resume |-> None,
     cover_letter |-> None,
     composed_pdf_path |-> None,
     sheets_exported |-> FALSE,
     sheets_url |-> None,
     messages |-> <<>>,
     current_action |-> "",
     response |-> NoResp,
     error |-> None]

(***************************************************************************)
(* agent/nodes/router.py                                                   *)
(***************************************************************************)
router_search(text) ==
    LET parts == ArgsOf(text, "/search")
    IN  IF Len(parts) < 1
        THEN [current_action |-> "help",
              response |-> Resp("SearchUsage", 0, 83)]
        ELSE IF parts[Len(parts)] \in location_keywords \/ Len(parts) > 2
             THEN [current_action |-> "search",
                   search_query |-> Some(SubSeq(parts, 1, Len(parts) - 1)),
                   location |-> Some(parts[Len(parts)])]
             ELSE [current_action |-> "search",
                   search_query |-> Some(parts),
                   location |-> Some("remote")]

\* variant: a token that is not a number selects the first job
router_customize_lenient(text) ==
    LET parts == ArgsOf(text, "/customize")
    IN  IF Len(parts) < 1
        THEN [current_action |-> "help",
              response |-> Resp("CustomizeUsage", 0, 56)]
        ELSE [current_action |-> "customize",
              selected_job_index |-> Some(IntOf(parts[1]) - 1)]

router_customize(text) ==
    LET parts == ArgsOf(text, "/customize")
    IN  IF Len(parts) < 1
        THEN [current_action |-> "help",
              response |-> Resp("CustomizeUsage", 0, 56)]
        ELSE IF IsIntTok(parts[1])
             THEN [current_action |-> "customize",
                   selected_job_index |-> Some(IntOf(parts[1]) - 1)]
             ELSE [current_action |-> "help",
                   response |-> Resp("CustomizeBadNumber", 0, 58)]

router_node(state) ==
    LET messages == state.messages
    IN  IF messages = <<>>
        THEN [current_action |-> "help", response |-> HELP_MESSAGE]
        ELSE LET text == LowerAll(messages[Len(messages)].content)
             IN  IF StartsWith(text, "/start")
                 THEN [current_action |-> "start", response |-> START_MESSAGE]
                 ELSE IF StartsWith(text, "/help")
                 THEN [current_action |-> "help", response |-> HELP_MESSAGE]
                 ELSE IF StartsWith(text, "/search")
                 THEN router_search(text)
                 ELSE IF StartsWith(text, "/customize")
                 THEN router_customize(text)
                 ELSE IF StartsWith(text, "/export")
                 THEN [current_action |-> "export"]
                 ELSE IF StartsWith(text, "/resume")
                 THEN [current_action |-> "help",
                       response |-> Resp("ResumePrompt", 0, 78)]
                 ELSE IF StartsWith(text, "/chat")
                 THEN [current_action |-> "chat"]
                 ELSE IF StartsWith(text, "/more")
                 THEN [current_action |-> "more"]
                 ELSE IF StartsWith(text, "/compose")
                 THEN [current_action |-> "compose"]
                 ELSE IF Len(text) = 1 /\ IsIntTok(text[1])
                 THEN [current_action |-> "customize",
                       selected_job_index |-> Some(IntOf(text[1]) - 1)]
                 ELSE [current_action |-> "chat"]

(***************************************************************************)
(* Jobs and generated texts.  A job is identified for de-duplication by    *)
(* its link; two postings may share a link and differ in title.            *)
(***************************************************************************)
Job(link, title, source) ==
    [link |-> link, title |-> title, company |-> "acme", source |-> source]

TextLen(t) ==
    CASE t = "CV-A" -> 1200
      [] t = "CV-B" -> 2600
      [] t = "CL-A" -> 900
      [] t = "CL-B" -> 1900
      [] t = "reply" -> 120
      [] t = "long-reply" -> 4500
      [] t = "link-271" -> 271
      [] t = "link-272" -> 272
      [] t = "link-4271" -> 4271
      [] t = "link-5000" -> 5000
      [] OTHER -> 40

\* the text the customizer answers with: the fixed lines, the job's title,
\* company and link, and the two documents cut at ResumeCut and CoverCut
DocumentsLen(job, gen) ==
    149 + TextLen(job.title) + TextLen(job.company) + TextLen(job.link)
        + Min(TextLen(gen.resume.text), ResumeCut)
        + Min(TextLen(gen.cover.text), CoverCut)

\* the listing texts: a header line plus one block per job
ListingLen(n) == 100 + 150 * n

Numbered(jobs, start) == [i \in 1..Len(jobs) |-> [num |-> start + i - 1, job |-> jobs[i]]]

RespItems(kind, n, len, items) ==
    [kind |-> kind, n |-> n, len |-> len, items |-> items]

(***************************************************************************)
(* Node results: the partial state update the node returns, the external   *)
(* collaborators it called, and whether an exception left the node.        *)
(***************************************************************************)
NodeResult(delta, calls) == [delta |-> delta, calls |-> calls, raised |-> FALSE]

NodeRaised(calls) ==
    [delta |-> [current_action |-> "raised"], calls |-> calls, raised |-> TRUE]

(***************************************************************************)
(* tools/jooble_api.py: every failure becomes an error result.             *)
(***************************************************************************)
search_jobs(raw) ==
    IF raw.kind = "ok"
    THEN [jobs |-> raw.jobs, totalCount |-> Len(raw.jobs), error |-> None]
    ELSE IF raw.kind = "http_error"
    THEN [jobs |-> <<>>, totalCount |-> 0, error |-> Some("API error")]
    ELSE [jobs |-> <<>>, totalCount |-> 0, error |-> Some("Request failed")]

(***************************************************************************)
(* agent/nodes/job_search.py                                               *)
(***************************************************************************)
job_search_node(state, raw) ==
    LET query == state.search_query
    IN  IF IsNone(query) \/ query = Some(<<>>)
        THEN NodeResult([response |-> Resp("NoKeywords", 0, 74),
                         error |-> Some("No search query provided")], {})
        ELSE LET result == search_jobs(raw)
             IN  IF ~IsNone(result.error)
                 THEN NodeResult([response |-> Resp("SearchFailed", 0, 60),
                                  error |-> result.error,
                                  jobs_found |-> <<>>], {"SearchJobs"})
                 ELSE IF result.jobs = <<>>
                 THEN NodeResult([response |-> Resp("NoJobsFound", 0, 90),
                                  jobs_found |-> <<>>,
                                  error |-> None], {"SearchJobs"})
                 ELSE NodeResult(
                        [jobs_found |-> Take(result.jobs, TopN),
                         response |-> RespItems("SearchResults", result.totalCount,
                                         ListingLen(Len(Take(result.jobs, TopN))),
                                         Numbered(Take(result.jobs, TopN), 1)),
                         error |-> None], {"SearchJobs"})

(***************************************************************************)
(* agent/nodes/customizer.py                                               *)
(***************************************************************************)
\* variant: the generator calls are not guarded, a failure leaves the node
customizer_generate_unguarded(state, gen) ==
    IF ~gen.resume.ok
    THEN NodeRaised({"GenerateCustomizedResume"})
    ELSE IF ~gen.cover.ok
    THEN NodeRaised({"GenerateCustomizedResume", "GenerateCoverLetter"})
    ELSE NodeResult(
           [selected_job |-> Some(state.jobs_found[state.selected_job_index[1] + 1]),
            customized_resume |-> Some(gen.resume.text),
            cover_letter |-> Some(gen.cover.text),
            response |-> Resp("DocumentsGenerated", 0,
                              DocumentsLen(state.jobs_found[state.selected_job_index[1] + 1],
                                           gen)),
            error |-> None],
           {"GenerateCustomizedResume", "GenerateCoverLetter"})

\* variant: the resume generated before the cover letter failed is returned
customizer_generate_partial(state, gen) ==
    IF ~gen.resume.ok
    THEN NodeResult([response |-> Resp("GenerateError", 0, 60),
                     error |-> Some("exception")], {"GenerateCustomizedResume"})
    ELSE IF ~gen.cover.ok
    THEN NodeResult([customized_resume |-> Some(gen.resume.text),
                     response |-> Resp("GenerateError", 0, 60),
                     error |-> Some("exception")],
                    {"GenerateCustomizedResume", "GenerateCoverLetter"})
    ELSE NodeResult(
           [selected_job |-> Some(state.jobs_found[state.selected_job_index[1] + 1]),
            customized_resume |-> Some(gen.resume.text),
            cover_letter |-> Some(gen.cover.text),
            response |-> Resp("DocumentsGenerated", 0,
                              DocumentsLen(state.jobs_found[state.selected_job_index[1] + 1],
                                           gen)),
            error |-> None],
           {"GenerateCustomizedResume", "GenerateCoverLetter"})

customizer_generate(state, gen) ==
    IF ~gen.resume.ok
    THEN NodeResult([response |-> Resp("GenerateError", 0, 60),
                     error |-> Some("exception")], {"GenerateCustomizedResume"})
    ELSE IF ~gen.cover.ok
    THEN NodeResult([response |-> Resp("GenerateError", 0, 60),
                     error |-> Some("exception")],
                    {"GenerateCustomizedResume", "GenerateCoverLetter"})
    ELSE LET selected_job == state.jobs_found[state.selected_job_index[1] + 1]
         IN  NodeResult(
               [selected_job |-> Some(selected_job),
                customized_resume |-> Some(gen.resume.text),
                cover_letter |-> Some(gen.cover.text),
                response |-> Resp("DocumentsGenerated", 0,
                                  DocumentsLen(selected_job, gen)),
                error |-> None],
               {"GenerateCustomizedResume", "GenerateCoverLetter"})

\* variant: the upper bound of the index check is off by one
customizer_node_off_by_one(state, gen) ==
    LET job_index == state.selected_job_index
        jobs == state.jobs_found
        resume == state.base_resume
    IN  IF IsNone(job_index)
        THEN NodeResult([response |-> Resp("NoJobSelected", 0, 59),
                         error |-> Some("No job selected")], {})
        ELSE IF jobs = <<>>
        THEN NodeResult([response |-> Resp("NoJobsInResults", 0, 47),
                         error |-> Some("No jobs found")], {})
        ELSE IF job_index[1] < 0 \/ job_index[1] >= Len(jobs) - 1
        THEN NodeResult([response |-> Resp("InvalidJobNumber", Len(jobs), 45),
                         error |-> Some("Invalid job index")], {})
        ELSE IF IsNone(resume) \/ resume = Some("")
        THEN NodeResult([response |-> Resp("NoResume", 0, 70),
                         error |-> Some("No resume")], {})
        ELSE customizer_generate(state, gen)

\* variant: the empty list of jobs is not checked before the index
customizer_node_no_jobs_check(state, gen) ==
    LET job_index == state.selected_job_index
        jobs == state.jobs_found
        resume == state.base_resume
    IN  IF IsNone(job_index)
        THEN NodeResult([response |-> Resp("NoJobSelected", 0, 59),
                         error |-> Some("No job selected")], {})
        ELSE IF job_index[1] < 0 \/ job_index[1] >= Len(jobs)
        THEN NodeResult([response |-> Resp("InvalidJobNumber", Len(jobs), 45),
                         error |-> Some("Invalid job index")], {})
        ELSE IF IsNone(resume) \/ resume = Some("")
        THEN NodeResult([response |-> Resp("NoResume", 0, 70),
                         error |-> Some("No resume")], {})
        ELSE customizer_generate(state, gen)

\* variant: the index is checked against zero only, so selecting past the end
\* of the list raises at jobs[job_index]
customizer_node_no_upper_check(state, gen) ==
    LET job_index == state.selected_job_index
        jobs == state.jobs_found
        resume == state.base_resume
    IN  IF IsNone(job_index)
        THEN NodeResult([response |-> Resp("NoJobSelected", 0, 59),
                         error |-> Some("No job selected")], {})
        ELSE IF jobs = <<>>
        THEN NodeResult([response |-> Resp("NoJobsInResults", 0, 47),
                         error |-> Some("No jobs found")], {})
        ELSE IF job_index[1] < 0
        THEN NodeResult([response |-> Resp("InvalidJobNumber", Len(jobs), 45),
                         error |-> Some("Invalid job index")], {})
        ELSE IF IsNone(resume) \/ resume = Some("")
        THEN NodeResult([response |-> Resp("NoResume", 0, 70),
                         error |-> Some("No resume")], {})
        ELSE IF job_index[1] >= Len(jobs)
        THEN NodeRaised({})
        ELSE customizer_generate(state, gen)

\* variant: the resume is looked for before the index is compared with the
\* list
customizer_node_resume_first(state, gen) ==
    LET job_index == state.selected_job_index
        jobs == state.jobs_found
        resume == state.base_resume
    IN  IF IsNone(job_index)
        THEN NodeResult([response |-> Resp("NoJobSelected", 0, 59),
                         error |-> Some("No job selected")], {})
        ELSE IF jobs = <<>>
        THEN NodeResult([response |-> Resp("NoJobsInResults", 0, 47),
                         error |-> Some("No jobs found")], {})
        ELSE IF IsNone(resume) \/ resume = Some("")
        THEN NodeResult([response |-> Resp("NoResume", 0, 70),
                         error |-> Some("No resume")], {})
        ELSE IF job_index[1] < 0 \/ job_index[1] >= Len(jobs)
        THEN NodeResult([response |-> Resp("InvalidJobNumber", Len(jobs), 45),
                         error |-> Some("Invalid job index")], {})
        ELSE customizer_generate(state, gen)

customizer_node(state, gen) ==
    LET job_index == state.selected_job_index
        jobs == state.jobs_found
        resume == state.base_resume
    IN  IF IsNone(job_index)
        THEN NodeResult([response |-> Resp("NoJobSelected", 0, 59),
                         error |-> Some("No job selected")], {})
        ELSE IF jobs = <<>>
        THEN NodeResult([response |-> Resp("NoJobsInResults", 0, 47),
                         error |-> Some("No jobs found")], {})
        ELSE IF job_index[1] < 0 \/ job_index[1] >= Len(jobs)
        THEN NodeResult([response |-> Resp("InvalidJobNumber", Len(jobs), 45),
                         error |-> Some("Invalid job index")], {})
        ELSE IF IsNone(resume) \/ resume = Some("")
        THEN NodeResult([response |-> Resp("NoResume", 0, 70),
                         error |-> Some("No resume")], {})
        ELSE customizer_generate(state, gen)

(***************************************************************************)
(* agent/nodes/composer.py                                                 *)
(***************************************************************************)
\* variant: the documents are not checked before composing
composer_node_unchecked(state, out) ==
    IF out.kind = "raise"
    THEN NodeResult([response |-> Resp("ComposeError", 0, 60),
                     error |-> Some("exception")], {"ComposeDocument"})
    ELSE IF out.kind = "written"
    THEN NodeResult([composed_pdf_path |-> Some(out.path),
                     response |-> Resp("Composed", 0, 181),
                     error |-> None], {"ComposeDocument"})
    ELSE NodeResult([response |-> Resp("PdfNotCreated", 0, 34),
                     error |-> Some("File not created")], {"ComposeDocument"})

composer_node(state, out) ==
    LET custom_resume == state.customized_resume
        cover_letter == state.cover_letter
    IN  IF IsNone(custom_resume) \/ custom_resume = Some("")
           \/ IsNone(cover_letter) \/ cover_letter = Some("")
        THEN NodeResult([response |-> Resp("NoDocuments", 0, 74),
                         error |-> Some("Missing documents for composition")], {})
        ELSE IF out.kind = "raise"
        THEN NodeResult([response |-> Resp("ComposeError", 0, 60),
                         error |-> Some("exception")], {"ComposeDocument"})
        ELSE IF out.kind = "written"
        THEN NodeResult([composed_pdf_path |-> Some(out.path),
                         response |-> Resp("Composed", 0, 181),
                         error |-> None], {"ComposeDocument"})
        ELSE NodeResult([response |-> Resp("PdfNotCreated", 0, 34),
                         error |-> Some("File not created")], {"ComposeDocument"})

(***************************************************************************)
(* agent/nodes/chat.py                                                     *)
(***************************************************************************)
chat_node(state, out) ==
    IF out.ok
    THEN NodeResult([response |-> Resp("ChatReply", 0, TextLen(out.text)),
                     error |-> None], {"Chat"})
    ELSE NodeResult([response |-> Resp("ChatError", 0, 60),
                     error |-> Some("exception")], {"Chat"})

(***************************************************************************)
(* agent/nodes/exporter.py with tools/sheets_writer.py                     *)
(***************************************************************************)
\* variant: an export that wrote no row counts as a success
exporter_node_accepts_zero(state, out) ==
    LET jobs == state.jobs_found
    IN  IF jobs = <<>>
        THEN NodeResult([response |-> Resp("NoJobsToExport", 0, 52),
                         error |-> Some("No jobs to export")], {})
        ELSE IF out.kind = "raise"
        THEN NodeResult([response |-> Resp("ExportError", 0, 120),
                         error |-> Some("exception")], {"SheetsWriter"})
        ELSE IF out.kind = "writer_error"
        THEN NodeResult([response |-> Resp("SheetsError", 0, 160),
                         error |-> Some("writer.error")], {"SheetsWriter"})
        ELSE IF out.kind = "no_client"
        THEN NodeResult([response |-> Resp("SheetsNotInitialized", 0, 62),
                         error |-> Some("Sheets not initialized")], {"SheetsWriter"})
        ELSE IF out.count >= 0
        THEN NodeResult([sheets_exported |-> TRUE,
                         sheets_url |-> Some(out.url),
                         response |-> Resp("Exported", out.count, 230),
                         error |-> None],
                        {"SheetsWriter", "ExportJobsBatch", "GetExportTargetUrl"})
        ELSE NodeResult([response |-> Resp("ExportFailed", Len(jobs), 170),
                         error |-> Some("Export failed")],
                        {"SheetsWriter", "ExportJobsBatch", "GetExportTargetUrl"})

exporter_node(state, out) ==
    LET jobs == state.jobs_found
    IN  IF jobs = <<>>
        THEN NodeResult([response |-> Resp("NoJobsToExport", 0, 52),
                         error |-> Some("No jobs to export")], {})
        ELSE IF out.kind = "raise"
        THEN NodeResult([response |-> Resp("ExportError", 0, 120),
                         error |-> Some("exception")], {"SheetsWriter"})
        ELSE IF out.kind = "writer_error"
        THEN NodeResult([response |-> Resp("SheetsError", 0, 160),
                         error |-> Some("writer.error")], {"SheetsWriter"})
        ELSE IF out.kind = "no_client"
        THEN NodeResult([response |-> Resp("SheetsNotInitialized", 0, 62),
                         error |-> Some("Sheets not initialized")], {"SheetsWriter"})
        ELSE IF out.count > 0
        THEN NodeResult([sheets_exported |-> TRUE,
                         sheets_url |-> Some(out.url),
                         response |-> Resp("Exported", out.count, 230),
                         error |-> None],
                        {"SheetsWriter", "ExportJobsBatch", "GetExportTargetUrl"})
        ELSE NodeResult([response |-> Resp("ExportFailed", Len(jobs), 170),
                         error |-> Some("Export failed")],
                        {"SheetsWriter", "ExportJobsBatch", "GetExportTargetUrl"})

(***************************************************************************)
(* tools/llm_query_expander.py, tools/extra_jobs_api.py,                   *)
(* tools/google_search_api.py: every failure degrades to a default.        *)
(***************************************************************************)
expand_query(query, raw) ==
    IF raw.kind = "ok"
    THEN LET variations == Take(SelectSeq(raw.titles, LAMBDA v : v # <<>>),
                                MaxVariations)
         IN  IF \E i \in 1..Len(variations) : variations[i] = query
             THEN variations
             ELSE <<query>> \o variations
    ELSE <<query>>

search_remotive(raw) == IF raw.kind = "ok" THEN Take(raw.jobs, RemotiveLimit) ELSE <<>>

search_google(raw) == IF raw.kind = "ok" THEN raw.jobs ELSE <<>>

(***************************************************************************)
(* agent/nodes/more_jobs.py                                                *)
(***************************************************************************)
RECURSIVE last_search_query(_)
last_search_query(messages) ==
    IF messages = <<>>
    THEN None
    ELSE LET content == messages[Len(messages)].content
             parts == ArgsOf(content, "/search")
             rest == SubSeq(messages, 1, Len(messages) - 1)
         IN  IF StartsWith(content, "/search") /\ parts # <<>>
             THEN Some(IF Len(parts) > 1
                       THEN SubSeq(parts, 1, Len(parts) - 1)
                       ELSE <<parts[1]>>)
             ELSE last_search_query(rest)

\* acc is [jobs, seen]: the jobs collected so far and the links seen
RECURSIVE add_unseen(_, _)
add_unseen(acc, list) ==
    IF list = <<>>
    THEN acc
    ELSE LET j == Head(list)
         IN  IF j.link \notin acc.seen
             THEN add_unseen([jobs |-> Append(acc.jobs, j),
                              seen |-> acc.seen \cup {j.link}], Tail(list))
             ELSE add_unseen(acc, Tail(list))

\* variant: an appended job's link is not added to the links seen
RECURSIVE add_unseen_forgetful(_, _)
add_unseen_forgetful(acc, list) ==
    IF list = <<>>
    THEN acc
    ELSE LET j == Head(list)
         IN  IF j.link \notin acc.seen
             THEN LET acc2 == [jobs |-> Append(acc.jobs, j), seen |-> acc.seen]
                  IN  IF Len(acc2.jobs) >= AppendCap
                      THEN acc2
                      ELSE add_unseen_forgetful(acc2, Tail(list))
             ELSE add_unseen_forgetful(acc, Tail(list))

\* variant: a result list is taken whole, whatever has been collected
add_unseen_whole(acc, list) == add_unseen(acc, list)

RECURSIVE add_unseen_capped(_, _)
add_unseen_capped(acc, list) ==
    IF list = <<>>
    THEN acc
    ELSE LET j == Head(list)
         IN  IF j.link \notin acc.seen
             THEN LET acc2 == [jobs |-> Append(acc.jobs, j),
                               seen |-> acc.seen \cup {j.link}]
                  IN  IF Len(acc2.jobs) >= AppendCap
                      THEN acc2
                      ELSE add_unseen_capped(acc2, Tail(list))
             ELSE add_unseen_capped(acc, Tail(list))

RECURSIVE variety_search(_, _, _, _)
variety_search(acc, variations, google, i) ==
    IF i > Len(variations) \/ Len(acc.jobs) >= StopSearchAt
    THEN acc
    ELSE variety_search(add_unseen_capped(acc, search_google(google[i])),
                        variations, google, i + 1)

more_jobs_collect_replace(state, query, out) ==
    LET variations == expand_query(query, out.expand)
        start == [jobs |-> <<>>, seen |-> Links(state.jobs_found)]
        direct == add_unseen(start, search_remotive(out.remotive))
        all_extra_jobs == variety_search(direct, variations, out.google, 1).jobs
        calls == {"ExpandQuery", "SearchRemotive"} \cup
                 (IF Len(direct.jobs) >= StopSearchAt THEN {} ELSE {"SearchGoogle"})
    IN  IF all_extra_jobs = <<>>
        THEN NodeResult([response |-> Resp("NoExtraJobs", 0, 70),
                         error |-> None], calls)
        ELSE NodeResult(
               [jobs_found |-> all_extra_jobs,
                response |-> RespItems("MoreResults", Len(all_extra_jobs),
                                ListingLen(Len(all_extra_jobs)),
                                Numbered(all_extra_jobs, 1)),
                error |-> None], calls)

\* variant: the extra jobs are numbered from 1, as ExtraJobsAPI.format_jobs_list
\* numbers them
more_jobs_collect_local_numbers(state, query, out) ==
    LET variations == expand_query(query, out.expand)
        start == [jobs |-> <<>>, seen |-> Links(state.jobs_found)]
        direct == add_unseen(start, search_remotive(out.remotive))
        all_extra_jobs == variety_search(direct, variations, out.google, 1).jobs
        calls == {"ExpandQuery", "SearchRemotive"} \cup
                 (IF Len(direct.jobs) >= StopSearchAt THEN {} ELSE {"SearchGoogle"})
        current_jobs == state.jobs_found
    IN  IF all_extra_jobs = <<>>
        THEN NodeResult([response |-> Resp("NoExtraJobs", 0, 70),
                         error |-> None], calls)
        ELSE NodeResult(
               [jobs_found |-> current_jobs \o all_extra_jobs,
                response |-> RespItems("MoreResults", Len(all_extra_jobs),
                                ListingLen(Len(all_extra_jobs)),
                                Numbered(all_extra_jobs, 1)),
                error |-> None], calls)

more_jobs_collect(state, query, out) ==
    LET variations == expand_query(query, out.expand)
        start == [jobs |-> <<>>, seen |-> Links(state.jobs_found)]
        direct == add_unseen(start, search_remotive(out.remotive))
        all_extra_jobs == variety_search(direct, variations, out.google, 1).jobs
        calls == {"ExpandQuery", "SearchRemotive"} \cup
                 (IF Len(direct.jobs) >= StopSearchAt THEN {} ELSE {"SearchGoogle"})
        current_jobs == state.jobs_found
    IN  IF all_extra_jobs = <<>>
        THEN NodeResult([response |-> Resp("NoExtraJobs", 0, 70),
                         error |-> None], calls)
        ELSE NodeResult(
               [jobs_found |-> current_jobs \o all_extra_jobs,
                response |-> RespItems("MoreResults", Len(all_extra_jobs),
                                ListingLen(Len(all_extra_jobs)),
                                Numbered(all_extra_jobs, Len(current_jobs) + 1)),
                error |-> None], calls)

\* variant: the secondary sources are asked even when no query is known
more_jobs_node_unchecked(state, out) ==
    LET stored == state.search_query
        query == IF IsNone(stored) \/ stored = Some(<<>>)
                 THEN last_search_query(state.messages)
                 ELSE stored
    IN  IF IsNone(query)
        THEN more_jobs_collect(state, <<>>, out)
        ELSE more_jobs_collect(state, query[1], out)

more_jobs_node(state, out) ==
    LET stored == state.search_query
        query == IF IsNone(stored) \/ stored = Some(<<>>)
                 THEN last_search_query(state.messages)
                 ELSE stored
    IN  IF IsNone(query) \/ query = Some(<<>>)
        THEN NodeResult([response |-> Resp("NoPreviousSearch", 0, 53),
                         error |-> Some("No query found for more jobs")], {})
        ELSE more_jobs_collect(state, query[1], out)

(***************************************************************************)
(* agent/graph.py: the router, then at most one node, then END.  The       *)
(* result is the input state overlaid with the updates of the nodes that   *)
(* ran; the input dict itself is not modified.                             *)
(***************************************************************************)
\* variant: every action without a handler of its own falls to the chat
\* handler
route_action_default_chat(state) ==
    LET action == state.current_action
    IN  IF action = "search" THEN "job_search"
        ELSE IF action = "customize" THEN "customizer"
        ELSE IF action = "export" THEN "exporter"
        ELSE IF action = "more" THEN "more"
        ELSE IF action = "compose" THEN "composer"
        ELSE "chat"

route_action(state) ==
    LET action == state.current_action
    IN  IF action = "search" THEN "job_search"
        ELSE IF action = "customize" THEN "customizer"
        ELSE IF action = "export" THEN "exporter"
        ELSE IF action = "chat" THEN "chat"
        ELSE IF action = "more" THEN "more"
        ELSE IF action = "compose" THEN "composer"
        ELSE "END"

run_node(node, state, ext) ==
    CASE node = "job_search" -> job_search_node(state, ext.search)
      [] node = "customizer" -> customizer_node(state, ext.gen)
      [] node = "exporter" -> exporter_node(state, ext.export)
      [] node = "chat" -> chat_node(state, ext.chat)
      [] node = "more" -> more_jobs_node(state, ext.more)
      [] node = "composer" -> composer_node(state, ext.compose)
      [] OTHER -> NodeResult([current_action |-> state.current_action], {})

\* whether the collaborator outcome behind a call made in this run is a
\* failure: an exception or an error status inside the tool
CallFailed(c, ext) ==
    CASE c = "SearchJobs" -> ext.search.kind # "ok"
      [] c = "GenerateCustomizedResume" -> ~ext.gen.resume.ok
      [] c = "GenerateCoverLetter" -> ~ext.gen.cover.ok
      [] c = "SheetsWriter" -> ext.export.kind # "ok"
      [] c = "ExportJobsBatch" -> ext.export.count = 0
      [] c = "Chat" -> ~ext.chat.ok
      [] c = "ExpandQuery" -> ext.more.expand.kind # "ok"
      [] c = "SearchRemotive" -> ext.more.remotive.kind # "ok"
      [] c = "SearchGoogle" -> ext.more.google[1].kind # "ok"
      [] c = "ComposeDocument" -> ext.compose.kind # "written"
      [] OTHER -> FALSE

FailedCalls(calls, ext) == {c \in calls : CallFailed(c, ext)}

job_agent_invoke(state, ext) ==
    LET routed == router_node(state) @@ state
        node == route_action(routed)
        res == run_node(node, routed, ext)
    IN  [state |-> res.delta @@ routed,
         node |-> node,
         calls |-> res.calls,
         failed |-> FailedCalls(res.calls, ext),
         raised |-> res.raised]

(***************************************************************************)
(* bot/telegram_handler.py: the session store.                             *)
(***************************************************************************)
AllUsers == {"u1", "u2"}

\* the session get_user_state returns: created on first contact, with the
\* resume saved on disk for that user when there is one
\* variant: a new session never looks for a saved resume
get_user_state_no_load(states, files, user_id) ==
    IF IsNone(states[user_id])
    THEN create_initial_state(user_id)
    ELSE states[user_id][1]

get_user_state(states, files, user_id) ==
    IF IsNone(states[user_id])
    THEN IF IsNone(files[user_id]) \/ files[user_id] = Some("")
         THEN create_initial_state(user_id)
         ELSE [create_initial_state(user_id) EXCEPT !.base_resume = files[user_id]]
    ELSE states[user_id][1]

\* variant: the updates replace the session instead of being merged into it
update_user_state_overwrite(state, updates) ==
    updates @@ create_initial_state(state.telegram_user_id)

update_user_state(state, updates) == updates @@ state

\* truthiness of an optional text
Truthy(o) == ~IsNone(o) /\ o # Some("")

(***************************************************************************)
(* Delivery: reply_text hands one text to the transport; a text is         *)
(* recorded as the slice [lo, hi) of the response it carries.              *)
(***************************************************************************)
reply_text(response) == <<[lo |-> 0, hi |-> response.len]>>

\* variant: the number of slices is rounded down, the tail is not sent
chunks_floor(response) ==
    LET n == response.len \div ChunkLimit
    IN  [i \in 1..n |-> [lo |-> (i - 1) * ChunkLimit,
                         hi |-> Min(i * ChunkLimit, response.len)]]

chunks(response) ==
    LET n == (response.len + ChunkLimit - 1) \div ChunkLimit
    IN  [i \in 1..n |-> [lo |-> (i - 1) * ChunkLimit,
                         hi |-> Min(i * ChunkLimit, response.len)]]

reply_chunked(response) ==
    IF response.len > ChunkLimit THEN chunks(response) ELSE reply_text(response)

(***************************************************************************)
(* The outcome of one handler run: the session it leaves in the store,     *)
(* what the agent did, and what was handed to the transport.               *)
(***************************************************************************)
Turn(session, inv, replies, document) ==
    [session |-> session,
     node |-> inv.node,
     calls |-> inv.calls,
     failed |-> inv.failed,
     raised |-> inv.raised,
     action |-> inv.state.current_action,
     response |-> inv.state.response,
     error |-> inv.state.error,
     replies |-> replies,
     document |-> document]

\* an exception leaving job_agent.invoke ends the handler at that line
Escaped(state, inv) == Turn(state, inv, <<>>, None)

NoExt ==
    [search |-> [kind |-> "raise"],
     gen |-> [resume |-> [ok |-> FALSE], cover |-> [ok |-> FALSE]],
     export |-> [kind |-> "raise"],
     chat |-> [ok |-> FALSE],
     more |-> [expand |-> [kind |-> "raise"], remotive |-> [kind |-> "raise"],
               google |-> [i \in 1..(MaxVariations + 1) |-> [kind |-> "raise"]]],
     compose |-> [kind |-> "raise"]]

fixed_command(state0, text, ext) ==
    LET state == [state0 EXCEPT !.messages = <<HumanMessage(text)>>]
        inv == job_agent_invoke(state, ext)
    IN  IF inv.raised THEN Escaped(state, inv)
        ELSE Turn(state, inv, reply_text(inv.state.response), None)

start_command(state0) == fixed_command(state0, <<"/start">>, NoExt)

help_command(state0) == fixed_command(state0, <<"/help">>, NoExt)

search_command(state0, command_text, ext) ==
    LET state == [state0 EXCEPT !.messages = <<HumanMessage(command_text)>>]
        inv == job_agent_invoke(state, ext)
        result == inv.state
    IN  IF inv.raised THEN Escaped(state, inv)
        ELSE Turn(update_user_state(state,
                    [jobs_found |-> result.jobs_found,
                     search_query |-> result.search_query,
                     location |-> result.location]),
                  inv, reply_text(result.response), None)

customize_command(state0, command_text, ext) ==
    LET state == [state0 EXCEPT !.messages = <<HumanMessage(command_text)>>]
        inv == job_agent_invoke(state, ext)
        result == inv.state
    IN  IF inv.raised THEN Escaped(state, inv)
        ELSE Turn(IF Truthy(result.customized_resume)
                  THEN update_user_state(state,
                         [customized_resume |-> result.customized_resume,
                          cover_letter |-> result.cover_letter,
                          selected_job |-> result.selected_job])
                  ELSE state,
                  inv, reply_chunked(result.response), None)

export_command(state0, ext) ==
    LET state == [state0 EXCEPT !.messages = <<HumanMessage(<<"/export">>)>>]
        inv == job_agent_invoke(state, ext)
        result == inv.state
    IN  IF inv.raised THEN Escaped(state, inv)
        ELSE Turn(IF result.sheets_exported
                  THEN update_user_state(state,
                         [sheets_exported |-> TRUE,
                          sheets_url |-> result.sheets_url])
                  ELSE state,
                  inv, reply_text(result.response), None)

chat_command(state0, command_text, ext) ==
    LET state == [state0 EXCEPT !.messages = Append(@, HumanMessage(command_text))]
        inv == job_agent_invoke(state, ext)
        result == inv.state
    IN  IF inv.raised THEN Escaped(state, inv)
        ELSE Turn([state EXCEPT !.messages =
                        Append(@, result.messages[Len(result.messages)])],
                  inv, reply_text(result.response), None)

more_command(state0, ext) ==
    LET state == [state0 EXCEPT !.messages = Append(@, HumanMessage(<<"/more">>))]
        inv == job_agent_invoke(state, ext)
        result == inv.state
    IN  IF inv.raised THEN Escaped(state, inv)
        ELSE Turn(update_user_state(state,
                    [jobs_found |-> result.jobs_found,
                     search_query |-> result.search_query,
                     location |-> result.location]),
                  inv, reply_text(result.response), None)

compose_command(state0, ext) ==
    LET state == [state0 EXCEPT !.messages = Append(@, HumanMessage(<<"/compose">>))]
        inv == job_agent_invoke(state, ext)
        result == inv.state
    IN  IF inv.raised THEN Escaped(state, inv)
        ELSE Turn(IF Truthy(result.composed_pdf_path)
                  THEN update_user_state(state,
                         [composed_pdf_path |-> result.composed_pdf_path])
                  ELSE state,
                  inv, reply_text(result.response),
                  IF Truthy(result.composed_pdf_path)
                  THEN result.composed_pdf_path ELSE None)

handle_text_number(state0, text, ext) ==
    LET job_num == IntOf(text[1])
        state == [state0 EXCEPT !.messages =
                     <<HumanMessage(<<"/customize", StrOf(job_num)>>)>>]
        inv == job_agent_invoke(state, ext)
        result == inv.state
    IN  IF inv.raised THEN Escaped(state, inv)
        ELSE Turn(IF Truthy(result.customized_resume)
                  THEN update_user_state(state,
                         [customized_resume |-> result.customized_resume,
                          cover_letter |-> result.cover_letter,
                          jobs_found |-> result.jobs_found,
                          search_query |-> result.search_query,
                          location |-> result.location])
                  ELSE state,
                  inv, reply_chunked(result.response), None)

handle_text_chat(state0, text, ext) ==
    LET state == [state0 EXCEPT !.messages = Append(@, HumanMessage(text))]
        inv == job_agent_invoke(state, ext)
        result == inv.state
    IN  IF inv.raised THEN Escaped(state, inv)
        ELSE Turn(IF result.messages # <<>>
                  THEN [state EXCEPT !.messages =
                            Append(@, result.messages[Len(result.messages)])]
                  ELSE state,
                  inv, reply_text(result.response), None)

handle_text(state0, text, ext) ==
    IF Len(text) = 1 /\ IsIntTok(text[1])
    THEN handle_text_number(state0, text, ext)
    ELSE handle_text_chat(state0, text, ext)

(***************************************************************************)
(* Document upload (handle_document) and the /resume prompt.               *)
(***************************************************************************)
NoInvoke(response) ==
    [node |-> "none", calls |-> {}, failed |-> {}, raised |-> FALSE,
     state |-> [current_action |-> "", response |-> response, error |-> None]]

resume_command(state0) ==
    Turn(state0, NoInvoke(Resp("ResumeUploadPrompt", 0, 143)),
         reply_text(Resp("ResumeUploadPrompt", 0, 143)), None)

\* the session and the saved file after an upload; file is the outcome of
\* downloading and parsing the document
handle_document(state0, saved, file) ==
    IF file.kind = "unsupported"
    THEN [file |-> saved, stored |-> FALSE,
          turn |-> Turn(state0, NoInvoke(Resp("UnsupportedFormat", 0, 72)),
                        reply_text(Resp("UnsupportedFormat", 0, 72)), None)]
    ELSE IF file.kind = "parse_error"
    THEN [file |-> saved, stored |-> FALSE,
          turn |-> Turn(state0, NoInvoke(Resp("ParseError", 0, 40)),
                        reply_text(Resp("Downloading", 0, 44))
                          \o reply_text(Resp("ParseError", 0, 40)), None)]
    ELSE IF file.kind = "raise"
    THEN [file |-> saved, stored |-> FALSE,
          turn |-> Turn(state0, NoInvoke(Resp("FileError", 0, 40)),
                        reply_text(Resp("Downloading", 0, 44))
                          \o reply_text(Resp("FileError", 0, 40)), None)]
    ELSE [file |-> Some(file.text), stored |-> TRUE,
          turn |-> Turn(update_user_state(state0, [base_resume |-> Some(file.text)]),
                        NoInvoke(Resp("ResumeUploaded", 0, 120)),
                        reply_text(Resp("Downloading", 0, 44))
                          \o reply_text(Resp("ResumeUploaded", 0, 120)), None)]

(***************************************************************************)
(* Inputs: the messages users send and the outcomes of the collaborators.  *)
(***************************************************************************)
Users == {"u1"}

SearchTexts ==
    {<<"/search">>, <<"/search", "python">>, <<"/search", "remote">>,
     <<"/search", "python", "dev", "remote">>}

\* /search messages of every shape the parser distinguishes: no token, one
\* token, a location keyword alone or last, two and three plain tokens, mixed
\* case, and the command word typed again after the keywords
ParseTexts ==
    {<<"/search">>, <<"/search", "python">>, <<"/search", "remote">>,
     <<"/search", "python", "dev">>, <<"/search", "python", "hybrid">>,
     <<"/search", "python", "dev", "nepal">>,
     <<"/search", "python", "dev", "remote">>,
     <<"/Search", "Python", "Remote">>,
     <<"/search", "python", "/search">>}

ChatTexts == {<<"/chat", "hi">>}

JobA == Job("a", "engineer", "Jooble")
JobB == Job("b", "analyst", "Jooble")
JobC == Job("c", "tester", "Jooble")
JobA2 == Job("a", "engineer (repost)", "Remotive")
JobD == Job("d", "developer", "Remotive")
JobD2 == Job("d", "developer (repost)", "LinkedIn (Google)")
JobE == Job("e", "designer", "LinkedIn (Google)")

SearchRaise == [kind |-> "raise", jobs |-> <<>>]
SearchHttpError == [kind |-> "http_error", jobs |-> <<>>]
SearchOkNone == [kind |-> "ok", jobs |-> <<>>]
SearchOkAB == [kind |-> "ok", jobs |-> <<JobA, JobB>>]
SearchOkC == [kind |-> "ok", jobs |-> <<JobC>>]

SearchOutcomes == {SearchRaise, SearchHttpError, SearchOkNone, SearchOkAB, SearchOkC}

GenFailFirst ==
    [resume |-> [ok |-> FALSE, text |-> ""], cover |-> [ok |-> FALSE, text |-> ""]]
GenFailSecond ==
    [resume |-> [ok |-> TRUE, text |-> "CV-A"], cover |-> [ok |-> FALSE, text |-> ""]]
GenOk ==
    [resume |-> [ok |-> TRUE, text |-> "CV-A"], cover |-> [ok |-> TRUE, text |-> "CL-A"]]

GenOutcomes == {GenFailFirst, GenFailSecond, GenOk}

\* documents longer than the cuts of the response
GenBig ==
    [resume |-> [ok |-> TRUE, text |-> "CV-B"], cover |-> [ok |-> TRUE, text |-> "CL-B"]]

\* jobs whose link makes the response with GenBig exactly 4000, 4001, 8000
\* and 8729 characters long
JobL0 == Job("link-271", "clerk", "Jooble")
JobL1 == Job("link-272", "nurse", "Jooble")
JobL2 == Job("link-4271", "pilot", "Jooble")
JobL3 == Job("link-5000", "baker", "Jooble")

SearchOkLong == [kind |-> "ok", jobs |-> <<JobL1, JobL2, JobL3>>]
SearchOkEdge == [kind |-> "ok", jobs |-> <<JobL0>>]

LongChat == [ok |-> TRUE, text |-> "long-reply"]

ExportRaise == [kind |-> "raise", count |-> 0, url |-> ""]
ExportWriterError == [kind |-> "writer_error", count |-> 0, url |-> ""]
ExportNoClient == [kind |-> "no_client", count |-> 0, url |-> ""]
ExportNothing == [kind |-> "ok", count |-> 0, url |-> "sheet"]
ExportOk == [kind |-> "ok", count |-> 2, url |-> "sheet"]

ExportOutcomes ==
    {ExportRaise, ExportWriterError, ExportNoClient, ExportNothing, ExportOk}

ChatOutcomes == {[ok |-> FALSE, text |-> ""], [ok |-> TRUE, text |-> "reply"]}

ExpandRaise == [kind |-> "raise", titles |-> <<>>]
ExpandOk == [kind |-> "ok", titles |-> <<<<"data", "engineer">>>>]

ExpandOutcomes == {ExpandRaise, ExpandOk}

RemotiveRaise == [kind |-> "raise", jobs |-> <<>>]
RemotiveOk == [kind |-> "ok", jobs |-> <<JobA2, JobD>>]

RemotiveOutcomes == {RemotiveRaise, RemotiveOk}

GoogleRaise == [kind |-> "raise", jobs |-> <<>>]
GoogleOk == [kind |-> "ok", jobs |-> <<JobD2, JobE, JobE>>]

GoogleOutcomes == {GoogleRaise, GoogleOk}

\* result lists long enough to pass both thresholds of the variety search
LinksR == <<"r1", "r2", "r3", "r4", "r5", "r6", "r7", "r8", "r9", "r10", "r11", "r12">>
LinksG == <<"g1", "g2", "g3", "g4", "g5", "g6", "g7", "g8", "g9", "g10", "g11", "g12">>
LinksH == <<"h1", "h2", "h3", "h4", "h5", "h6", "h7", "h8", "h9", "h10", "h11", "h12">>

JobsNamed(links, n, source) == [i \in 1..n |-> Job(links[i], "engineer", source)]

Remotive12 == [kind |-> "ok", jobs |-> JobsNamed(LinksR, 12, "Remotive")]
GoogleG4 == [kind |-> "ok", jobs |-> JobsNamed(LinksG, 4, "Google")]
GoogleG12 == [kind |-> "ok", jobs |-> JobsNamed(LinksG, 12, "Google")]
GoogleH12 == [kind |-> "ok", jobs |-> JobsNamed(LinksH, 12, "Google")]

ComposeRaise == [kind |-> "raise", path |-> ""]
ComposeMissing == [kind |-> "missing", path |-> ""]
ComposeWritten == [kind |-> "written", path |-> "pdf1"]

ComposeOutcomes == {ComposeRaise, ComposeMissing, ComposeWritten}

FileUnsupported == [kind |-> "unsupported", text |-> ""]
FileParseError == [kind |-> "parse_error", text |-> ""]
FileRaise == [kind |-> "raise", text |-> ""]
FileOk == [kind |-> "ok", text |-> "resume-1"]
FileOk2 == [kind |-> "ok", text |-> "resume-2"]
\* a file from which no text can be extracted: parsing succeeds with ""
FileEmpty == [kind |-> "ok", text |-> ""]

FileOutcomes == {FileUnsupported, FileParseError, FileRaise, FileOk}

(***************************************************************************)
(* The state machine: one action per handler of the bot.                   *)
(***************************************************************************)
Observe(cmd, user, text, prev, turn) ==
    [cmd |-> cmd, user |-> user, text |-> text, prev |-> prev,
     node |-> turn.node, calls |-> turn.calls, failed |-> turn.failed,
     raised |-> turn.raised, replaced |-> [u \in AllUsers |-> 0],
     uploaded |-> [u \in AllUsers |-> None],
     action |-> turn.action, response |-> turn.response, error |-> turn.error,
     replies |-> turn.replies, document |-> turn.document]

Init ==
    /\ user_states = [u \in AllUsers |-> None]
    /\ resume_files = [u \in AllUsers |-> None]
    /\ last = Observe("init", "", <<>>, create_initial_state(""),
                      Turn(create_initial_state(""), NoInvoke(NoResp), <<>>, None))
    /\ inflight = {}

\* history variable: for each user, the length of the jobs_found list that the
\* user's latest fresh search replaced (0 before any replacement)
Replaced(cmd, u, before, turn) ==
    IF cmd = "search" /\ turn.session.jobs_found # before.jobs_found
    THEN [last.replaced EXCEPT ![u] = Len(before.jobs_found)]
    ELSE last.replaced

\* history variable: for each user, the text of the user's latest successful
\* upload (None before the first one); it outlives a restart
Uploaded(u, file, done) ==
    IF done.stored THEN [last.uploaded EXCEPT ![u] = Some(file.text)]
    ELSE last.uploaded

\* a handler that reads the session through get_user_state and runs to its end
Handle(cmd, u, text, turn) ==
    /\ Len(turn.session.messages) <= MaxHistory
    /\ user_states' = [user_states EXCEPT ![u] = Some(turn.session)]
    /\ last' = [Observe(cmd, u, text, get_user_state(user_states, resume_files, u), turn)
                   EXCEPT !.replaced =
                       Replaced(cmd, u, get_user_state(user_states, resume_files, u), turn),
                          !.uploaded = last.uploaded]
    /\ UNCHANGED <<resume_files, inflight>>

Session(u) == get_user_state(user_states, resume_files, u)

StartCommand(u) == Handle("start", u, <<"/start">>, start_command(Session(u)))

HelpCommand(u) == Handle("help", u, <<"/help">>, help_command(Session(u)))

SearchCommand(u, texts, outcomes) ==
    \E text \in texts, raw \in outcomes :
        Handle("search", u, text,
               search_command(Session(u), text, [NoExt EXCEPT !.search = raw]))

CustomizeCommand(u, texts, outcomes) ==
    \E text \in texts, gen \in outcomes :
        Handle("customize", u, text,
               customize_command(Session(u), text, [NoExt EXCEPT !.gen = gen]))

ExportCommand(u, outcomes) ==
    \E out \in outcomes :
        Handle("export", u, <<"/export">>,
               export_command(Session(u), [NoExt EXCEPT !.export = out]))

ChatCommand(u, texts, outcomes) ==
    \E text \in texts, out \in outcomes :
        Handle("chat", u, text,
               chat_command(Session(u), text, [NoExt EXCEPT !.chat = out]))

MoreCommand(u, expands, remotives, googles) ==
    \E e \in expands, r \in remotives, g1 \in googles, g2 \in googles :
        Handle("more", u, <<"/more">>,
               more_command(Session(u),
                 [NoExt EXCEPT !.more =
                    [expand |-> e, remotive |-> r,
                     google |-> [i \in 1..(MaxVariations + 1) |->
                                    IF i = 1 THEN g1 ELSE g2]]]))

ComposeCommand(u, outcomes) ==
    \E out \in outcomes :
        Handle("compose", u, <<"/compose">>,
               compose_command(Session(u), [NoExt EXCEPT !.compose = out]))

HandleText(u, texts, gens, chats) ==
    \E text \in texts, gen \in gens, out \in chats :
        Handle("text", u, text,
               handle_text(Session(u), text,
                           [NoExt EXCEPT !.gen = gen, !.chat = out]))

\* /resume only replies; it does not touch the session store
ResumeCommand(u) ==
    /\ last' = [Observe("resume", u, <<"/resume">>, Session(u),
                        resume_command(Session(u)))
                   EXCEPT !.replaced = last.replaced, !.uploaded = last.uploaded]
    /\ UNCHANGED <<user_states, resume_files, inflight>>

HandleDocument(u, outcomes) ==
    \E file \in outcomes :
        LET done == handle_document(Session(u), resume_files[u], file)
        IN  /\ resume_files' = [resume_files EXCEPT ![u] = done.file]
            /\ user_states' = IF done.stored
                              THEN [user_states EXCEPT ![u] = Some(done.turn.session)]
                              ELSE user_states
            /\ last' = [Observe("document", u, <<file.text>>, Session(u), done.turn)
                           EXCEPT !.replaced = last.replaced,
                                  !.uploaded = Uploaded(u, file, done)]
            /\ UNCHANGED inflight

\* the process restarts: the in-memory sessions are lost, the files stay
Restart ==
    /\ \E u \in AllUsers : ~IsNone(user_states[u])
    /\ user_states' = [u \in AllUsers |-> None]
    /\ last' = [Observe("restart", "", <<>>, create_initial_state(""),
                        Turn(create_initial_state(""), NoInvoke(NoResp), <<>>, None))
                   EXCEPT !.uploaded = last.uploaded]
    /\ UNCHANGED <<resume_files, inflight>>

(***************************************************************************)
(* Spec: the whole dispatcher, every handler, for one user.                *)
(***************************************************************************)
Next ==
    \/ \E u \in Users : StartCommand(u)
    \/ \E u \in Users : HelpCommand(u)
    \/ \E u \in Users : SearchCommand(u, {<<"/search">>, <<"/search", "python">>},
                                      {SearchRaise, SearchOkAB})
    \/ \E u \in Users : CustomizeCommand(u,
                            {<<"/customize", "abc">>, <<"/customize", "0">>,
                             <<"/customize", "1">>, <<"/customize", "3">>},
                            GenOutcomes)
    \/ \E u \in Users : ExportCommand(u, {ExportRaise, ExportOk})
    \/ \E u \in Users : ChatCommand(u, ChatTexts, ChatOutcomes)
    \/ \E u \in Users : MoreCommand(u, {ExpandRaise}, RemotiveOutcomes, {GoogleRaise})
    \/ \E u \in Users : ComposeCommand(u, ComposeOutcomes)
    \/ \E u \in Users : HandleText(u, {<<"hello">>, <<"1">>}, {GenOk}, ChatOutcomes)
    \/ \E u \in Users : ResumeCommand(u)
    \/ \E u \in Users : HandleDocument(u, {FileRaise, FileOk})
    \/ Restart

Spec == Init /\ [][Next]_vars

(***************************************************************************)
(* SpecMore: searches and fetch-more turns with every combination of the   *)
(* secondary sources' results.                                             *)
(***************************************************************************)
NextMore ==
    \/ \E u \in Users : SearchCommand(u, SearchTexts, SearchOutcomes)
    \/ \E u \in Users : MoreCommand(u, ExpandOutcomes, RemotiveOutcomes, GoogleOutcomes)
    \/ \E u \in Users : ChatCommand(u, ChatTexts, {[ok |-> TRUE, text |-> "reply"]})
    \/ Restart

SpecMore == Init /\ [][NextMore]_vars

(***************************************************************************)
(* SpecCap: fetch-more turns whose secondary sources return more jobs than *)
(* the variety search keeps.                                               *)
(***************************************************************************)
NextCap ==
    \/ \E u \in Users : SearchCommand(u, {<<"/search", "python">>},
                                      {SearchOkAB, SearchOkC})
    \/ \E u \in Users : MoreCommand(u, ExpandOutcomes, {RemotiveRaise, Remotive12},
                                    {GoogleG4, GoogleG12, GoogleH12})
    \/ Restart

SpecCap == Init /\ [][NextCap]_vars

(***************************************************************************)
(* SpecNumber: listings of searches that return fewer and more jobs than   *)
(* are shown, continued by fetch-more turns, with and without a resume.    *)
(***************************************************************************)
SearchOk12 == [kind |-> "ok", jobs |-> JobsNamed(LinksH, 12, "Jooble")]

NextNumber ==
    \/ \E u \in Users : SearchCommand(u, {<<"/search", "python">>},
                                      {SearchOkAB, SearchOk12})
    \/ \E u \in Users : MoreCommand(u, {ExpandRaise}, {RemotiveRaise, RemotiveOk},
                                    {GoogleRaise, GoogleOk})
    \/ \E u \in Users : HandleDocument(u, {FileOk})
    \/ Restart

SpecNumber == Init /\ [][NextNumber]_vars

(***************************************************************************)
(* SpecStale: documents generated by /customize for a job of one search,   *)
(* fresh searches afterwards, and compose turns.  customize_command stores *)
(* the job together with the documents generated for it.                   *)
(***************************************************************************)
NextStale ==
    \/ \E u \in Users : SearchCommand(u, {<<"/search", "python">>},
                                      {SearchOkAB, SearchOkC})
    \/ \E u \in Users : CustomizeCommand(u,
                            {<<"/customize", "1">>, <<"/customize", "2">>}, {GenOk})
    \/ \E u \in Users : ComposeCommand(u, {ComposeWritten})
    \/ \E u \in Users : HandleDocument(u, {FileOk})
    \/ Restart

SpecStale == Init /\ [][NextStale]_vars

(***************************************************************************)
(* SpecSelect: searches that return lists of different lengths, with       *)
(* customize turns by command and by bare number in between.               *)
(***************************************************************************)
NextSelect ==
    \/ \E u \in Users : SearchCommand(u, {<<"/search", "python">>},
                                      {SearchOkAB, SearchOkC})
    \/ \E u \in Users : CustomizeCommand(u,
                            {<<"/customize", "1">>, <<"/customize", "2">>}, {GenOk})
    \/ \E u \in Users : HandleText(u, {<<"2">>}, {GenOk}, {[ok |-> TRUE, text |-> "reply"]})
    \/ \E u \in Users : HandleDocument(u, {FileOk})
    \/ Restart

SpecSelect == Init /\ [][NextSelect]_vars

(***************************************************************************)
(* SpecTurns: the handlers of two users as the event loop runs them, in    *)
(* three steps.  A handler reads the session, writes the inbound message   *)
(* into it and enters job_agent.invoke, a synchronous call made inside the *)
(* coroutine; the call returns and the handler stores its updates; the     *)
(* awaited reply is sent and the handler ends.  The application is built   *)
(* without concurrent updates, so the dispatcher awaits one handler to its *)
(* end before it takes the next update.                                    *)
(***************************************************************************)
\* variant: updates are dispatched concurrently and the agent call is awaited
CanStart_concurrent(running) == TRUE

\* the dispatcher takes the next update only when no handler is running
CanStart(running) == running = {}

\* the session as the handler leaves it in the store before it calls the agent
Entered(cmd, state0, text) ==
    IF cmd \in {"more", "chat", "compose"}
    THEN [state0 EXCEPT !.messages = Append(@, HumanMessage(text))]
    ELSE [state0 EXCEPT !.messages = <<HumanMessage(text)>>]

BeginTurn(cmd, u, text, turn) ==
    /\ CanStart(inflight)
    /\ Len(turn.session.messages) <= MaxHistory
    /\ inflight' = inflight \cup
                      {[user |-> u, cmd |-> cmd, text |-> text, read |-> Session(u),
                        turn |-> turn, stage |-> "invoke"]}
    /\ user_states' = [user_states EXCEPT ![u] = Some(Entered(cmd, Session(u), text))]
    /\ UNCHANGED <<resume_files, last>>

BeginHelp(u) == BeginTurn("help", u, <<"/help">>, help_command(Session(u)))

BeginSearch(u, texts, outcomes) ==
    \E text \in texts, raw \in outcomes :
        BeginTurn("search", u, text,
                  search_command(Session(u), text, [NoExt EXCEPT !.search = raw]))

BeginMore(u, expands, remotives, googles) ==
    \E e \in expands, r \in remotives, g \in googles :
        BeginTurn("more", u, <<"/more">>,
                  more_command(Session(u),
                    [NoExt EXCEPT !.more =
                       [expand |-> e, remotive |-> r,
                        google |-> [i \in 1..(MaxVariations + 1) |-> g]]]))

\* job_agent.invoke returns and the handler stores its updates
ReturnTurn ==
    \E t \in inflight :
        /\ t.stage = "invoke"
        /\ user_states' = [user_states EXCEPT ![t.user] = Some(t.turn.session)]
        /\ inflight' = (inflight \ {t}) \cup {[t EXCEPT !.stage = "reply"]}
        /\ UNCHANGED <<resume_files, last>>

\* the reply has been sent and the handler ends
FinishTurn ==
    \E t \in inflight :
        /\ t.stage = "reply"
        /\ inflight' = inflight \ {t}
        /\ last' = [Observe(t.cmd, t.user, t.text, t.read, t.turn)
                       EXCEPT !.replaced = Replaced(t.cmd, t.user, t.read, t.turn),
                              !.uploaded = last.uploaded]
        /\ UNCHANGED <<user_states, resume_files>>

NextTurns ==
    \/ \E u \in AllUsers : BeginHelp(u)
    \/ \E u \in AllUsers : BeginSearch(u, {<<"/search", "python">>},
                                       {SearchRaise, SearchOkAB})
    \/ \E u \in AllUsers : BeginMore(u, {ExpandRaise}, {RemotiveOk}, {GoogleRaise})
    \/ ReturnTurn
    \/ FinishTurn

SpecTurns == Init /\ [][NextTurns]_vars

(***************************************************************************)
(* SpecResume: two users upload resumes (two texts, an empty text, a       *)
(* failing download), talk to the bot, and the process restarts.           *)
(***************************************************************************)
NextResume ==
    \/ \E u \in AllUsers : HandleDocument(u, {FileRaise, FileOk, FileOk2, FileEmpty})
    \/ \E u \in AllUsers : HelpCommand(u)
    \/ Restart

SpecResume == Init /\ [][NextResume]_vars

(***************************************************************************)
(* SpecExport: searches and exports with every outcome of the spreadsheet  *)
(* writer.                                                                 *)
(***************************************************************************)
NextExport ==
    \/ \E u \in Users : SearchCommand(u, {<<"/search">>, <<"/search", "python">>},
                                      {SearchRaise, SearchOkAB, SearchOkC})
    \/ \E u \in Users : ExportCommand(u, ExportOutcomes)
    \/ \E u \in Users : HelpCommand(u)
    \/ Restart

SpecExport == Init /\ [][NextExport]_vars

(***************************************************************************)
(* SpecLong: responses around and beyond the limit of one message, from    *)
(* the customizer (by command and by bare number) and from the chat.       *)
(***************************************************************************)
NextLong ==
    \/ \E u \in Users : SearchCommand(u, {<<"/search", "python">>},
                                      {SearchOkAB, SearchOkLong, SearchOkEdge})
    \/ \E u \in Users : CustomizeCommand(u,
                            {<<"/customize", "1">>, <<"/customize", "2">>,
                             <<"/customize", "3">>}, {GenOk, GenBig})
    \/ \E u \in Users : HandleText(u, {<<"2">>}, {GenBig}, {LongChat})
    \/ \E u \in Users : ChatCommand(u, ChatTexts, {LongChat, [ok |-> TRUE, text |-> "reply"]})
    \/ \E u \in Users : HandleDocument(u, {FileOk})
    \/ Restart

SpecLong == Init /\ [][NextLong]_vars

(***************************************************************************)
(* SpecParse: /search messages of every shape, each answered by the        *)
(* primary search with no job or two jobs.                                 *)
(***************************************************************************)
NextParse ==
    \/ \E u \in Users : SearchCommand(u, ParseTexts, {SearchOkNone, SearchOkAB})
    \/ Restart

SpecParse == Init /\ [][NextParse]_vars

(***************************************************************************)
(* Vocabulary of the properties.  last describes the most recent handler   *)
(* run: last.prev is the session the handler obtained from get_user_state, *)
(* Cur the session it left in the store.                                   *)
(***************************************************************************)
IsTurn ==
    last.cmd \in {"start", "help", "search", "customize", "export", "chat",
                  "more", "compose", "text"}

Cur == user_states[last.user][1]

\* the token the user gave as job number in a customize turn
NumberToken == IF last.cmd = "text" THEN last.text[1] ELSE last.text[2]

Generators == {"GenerateCustomizedResume", "GenerateCoverLetter"}

Appended == SubSeq(Cur.jobs_found, Len(last.prev.jobs_found) + 1, Len(Cur.jobs_found))

SameExceptHistory(a, b) == [a EXCEPT !.messages = <<>>] = [b EXCEPT !.messages = <<>>]

(***************************************************************************)
(* C1: in every turn the conversation history stored before the turn is a  *)
(* prefix of the history stored after it.                                  *)
(***************************************************************************)
C1_HistoryOnlyGrows ==
    IsTurn => IsPrefix(last.prev.messages, Cur.messages)

(***************************************************************************)
(* C2: after a chat turn whose Chat call succeeded the history has grown   *)
(* by exactly two entries, the inbound user message and then the           *)
(* assistant's reply.                                                      *)
(***************************************************************************)
C2_ChatAppendsMessageAndReply ==
    (last.node = "chat" /\ IsNone(last.error)) =>
        /\ Len(Cur.messages) = Len(last.prev.messages) + 2
        /\ IsPrefix(last.prev.messages, Cur.messages)
        /\ Cur.messages[Len(Cur.messages) - 1] = HumanMessage(last.text)
        /\ Cur.messages[Len(Cur.messages)].role = "ai"

ExternalCallFailed ==
    /\ last.node \in {"job_search", "customizer", "exporter", "composer"}
    /\ last.calls # {}
    /\ ~IsNone(last.error)

C4_FailedCallKeepsResults ==
    ExternalCallFailed =>
        /\ Cur.jobs_found = last.prev.jobs_found
        /\ Cur.customized_resume = last.prev.customized_resume
        /\ Cur.cover_letter = last.prev.cover_letter
        /\ Cur.composed_pdf_path = last.prev.composed_pdf_path
        /\ Cur.sheets_exported = last.prev.sheets_exported
        /\ Cur.sheets_url = last.prev.sheets_url

C6_IndexRange ==
    (/\ last.node = "customizer"
     /\ Len(last.prev.jobs_found) >= 1
     /\ Truthy(last.prev.base_resume)) =>
        LET n == Len(last.prev.jobs_found)
            index == IntOf(NumberToken) - 1
        IN  IF 0 <= index /\ index < n
            THEN /\ "GenerateCustomizedResume" \in last.calls
                 /\ last.response.kind \in {"DocumentsGenerated", "GenerateError"}
            ELSE /\ last.response.kind = "InvalidJobNumber"
                 /\ last.response.n = n
                 /\ last.calls = {}
                 /\ Cur.customized_resume = last.prev.customized_resume
                 /\ Cur.cover_letter = last.prev.cover_letter

C6_Witness ==
    /\ last.node = "customizer"
    /\ Len(last.prev.jobs_found) = 2
    /\ Truthy(last.prev.base_resume)
    /\ IntOf(NumberToken) - 1 = 2
    /\ last.response.kind = "InvalidJobNumber"
    /\ last.response.n = 2

(***************************************************************************)
(* C7: /customize followed by a token that is not an integer yields the    *)
(* help action with a usage message and runs no handler.  As first stated: *)
(* every field of the stored session is unchanged.  As it holds: every     *)
(* field other than the conversation history is unchanged.                 *)
(***************************************************************************)
NonIntegerCustomize ==
    /\ last.cmd = "customize"
    /\ Len(last.text) >= 2
    /\ ~IsIntTok(last.text[2])

C7_Original ==
    NonIntegerCustomize =>
        /\ last.action = "help"
        /\ last.response.kind = "CustomizeBadNumber"
        /\ last.node = "END"
        /\ last.calls = {}
        /\ Cur = last.prev

C7_BadNumberKeepsSession ==
    NonIntegerCustomize =>
        /\ last.action = "help"
        /\ last.response.kind = "CustomizeBadNumber"
        /\ last.node = "END"
        /\ last.calls = {}
        /\ SameExceptHistory(Cur, last.prev)

C7_Witness ==
    /\ NonIntegerCustomize
    /\ last.response.kind = "CustomizeBadNumber"
    /\ Len(last.prev.jobs_found) = 2
    /\ Truthy(last.prev.base_resume)

(***************************************************************************)
(* C8: with no jobs in the session, /customize n answers with the          *)
(* run-/search-first error and calls no generator.  As first stated: every *)
(* field of the stored session is unchanged.  As it holds: every field     *)
(* other than the conversation history is unchanged.                       *)
(***************************************************************************)
CustomizeWithoutJobs ==
    /\ last.cmd \in {"customize", "text"}
    /\ last.action = "customize"
    /\ last.prev.jobs_found = <<>>

C8_Original ==
    CustomizeWithoutJobs =>
        /\ last.response.kind = "NoJobsInResults"
        /\ last.calls \cap Generators = {}
        /\ Cur = last.prev

C8_NoJobsKeepsSession ==
    CustomizeWithoutJobs =>
        /\ last.response.kind = "NoJobsInResults"
        /\ last.error = Some("No jobs found")
        /\ last.calls \cap Generators = {}
        /\ SameExceptHistory(Cur, last.prev)

C8_Witness ==
    /\ CustomizeWithoutJobs
    /\ last.cmd = "customize"
    /\ last.node = "customizer"
    /\ Truthy(last.prev.base_resume)
    /\ last.response.kind = "NoJobsInResults"

C10_MoreAppendsNoDuplicateLink ==
    last.cmd = "more" =>
        /\ IsPrefix(last.prev.jobs_found, Cur.jobs_found)
        /\ \A i \in 1..Len(Appended) : Appended[i].link \notin Links(last.prev.jobs_found)
        /\ \A i, j \in 1..Len(Appended) :
               Appended[i].link = Appended[j].link => i = j

C10_Witness ==
    /\ last.cmd = "more"
    /\ "a" \in Links(last.prev.jobs_found)
    /\ Len(Appended) = 2
    /\ Appended[1] = JobD
    /\ Appended[2] = JobE

(***************************************************************************)
(* C11: in every fetch-more turn (jobs appended, nothing found, or no      *)
(* previous search) the jobs_found stored before the turn is a prefix of   *)
(* the jobs_found stored after it, so every existing job keeps its index.  *)
(***************************************************************************)
C11_MoreKeepsPrefix ==
    last.cmd = "more" =>
        /\ Len(Cur.jobs_found) >= Len(last.prev.jobs_found)
        /\ \A i \in 1..Len(last.prev.jobs_found) :
               Cur.jobs_found[i] = last.prev.jobs_found[i]
        /\ last.response.kind \in {"NoExtraJobs", "NoPreviousSearch"} =>
               Cur.jobs_found = last.prev.jobs_found

C11_Witness ==
    /\ last.cmd = "more"
    /\ last.response.kind = "MoreResults"
    /\ Len(last.prev.jobs_found) = 2
    /\ Len(Cur.jobs_found) > 2
    /\ Cur.jobs_found[1] = JobA
    /\ Cur.jobs_found[2] = JobB

(***************************************************************************)
(* C12: after a fresh search has replaced jobs_found, every customize turn *)
(* validates its index against the length of the current list: an index    *)
(* that was valid for the replaced list but is not below the new length is *)
(* rejected without generating, and a turn that generates used an index    *)
(* below the current length.                                               *)
(***************************************************************************)
C12_StaleIndexRejected ==
    last.node = "customizer" =>
        LET index == IntOf(NumberToken) - 1
            n == Len(last.prev.jobs_found)
        IN  /\ (0 <= index /\ index < last.replaced[last.user] /\ index >= n) =>
                   /\ last.response.kind \in {"InvalidJobNumber", "NoJobsInResults"}
                   /\ ~IsNone(last.error)
                   /\ last.calls = {}
                   /\ Len(last.replies) = 1
                   /\ Cur.customized_resume = last.prev.customized_resume
                   /\ Cur.cover_letter = last.prev.cover_letter
            /\ last.calls \cap Generators # {} => (0 <= index /\ index < n)

C12_Witness ==
    /\ last.node = "customizer"
    /\ last.replaced[last.user] = 2
    /\ Len(last.prev.jobs_found) = 1
    /\ IntOf(NumberToken) - 1 = 1
    /\ Truthy(last.prev.customized_resume)
    /\ last.response.kind = "InvalidJobNumber"

(***************************************************************************)
(* C13: for every /search message, with no token after the command the     *)
(* parser yields the help action with the usage message and no search      *)
(* runs; otherwise it yields the search action, where location is the last *)
(* token and keywords the remaining tokens if the last token is remote,    *)
(* hybrid or onsite or there are more than two tokens, and keywords are    *)
(* all tokens with location remote otherwise.  Tokens are compared in      *)
(* lower case.                                                             *)
(***************************************************************************)
C13_SearchParsing ==
    last.cmd = "search" =>
        LET tokens == Tail(LowerAll(last.text))
            n == Len(tokens)
        IN  IF n = 0
            THEN /\ last.action = "help"
                 /\ last.response.kind = "SearchUsage"
                 /\ last.node = "END"
                 /\ last.calls = {}
            ELSE /\ last.action = "search"
                 /\ IF tokens[n] \in {"remote", "hybrid", "onsite"} \/ n > 2
                    THEN /\ Cur.location = Some(tokens[n])
                         /\ Cur.search_query = Some(SubSeq(tokens, 1, n - 1))
                    ELSE /\ Cur.location = Some("remote")
                         /\ Cur.search_query = Some(tokens)

(***************************************************************************)
(* C14: in every turn in which an external collaborator call fails         *)
(* (primary search, a secondary search, query expansion, document          *)
(* generation, export or compose), the text delivered to the user is an    *)
(* error message and the turn's error field is set.                        *)
(***************************************************************************)
ErrorKinds ==
    {"SearchFailed", "GenerateError", "ExportError", "SheetsError",
     "SheetsNotInitialized", "ExportFailed", "ComposeError", "PdfNotCreated"}

DeliversError ==
    /\ last.response.kind \in ErrorKinds
    /\ last.replies = reply_text(last.response)
    /\ ~IsNone(last.error)

SurfacedCalls ==
    {"SearchJobs", "GenerateCustomizedResume", "GenerateCoverLetter",
     "SheetsWriter", "ExportJobsBatch", "ComposeDocument"}

SecondarySearches == {"SearchRemotive", "SearchGoogle"}

C14_FailedCallDeliversError ==
    (IsTurn /\ last.failed \cap (SurfacedCalls \cup SecondarySearches \cup {"ExpandQuery"}) # {})
        => DeliversError

(***************************************************************************)
(* C15: while one user's turn is waiting on a blocking external call, a    *)
(* turn for a different user can start: no user's turn has to wait for     *)
(* another user's turn to finish.                                          *)
(***************************************************************************)
C15_OtherUserNeverWaits ==
    \A t \in inflight :
        (t.stage = "invoke" /\ t.turn.calls # {}) =>
            \A v \in AllUsers \ {t.user} : ENABLED BeginHelp(v)

(***************************************************************************)
(* C16: two turns for the same user never interleave their                 *)
(* read-modify-write of that user's session: at most one turn of a user is *)
(* between its read and its store, the session in the store during that    *)
(* time is the one that turn read with its own message written, and the    *)
(* updates it stored are still in the store when the turn ends.            *)
(***************************************************************************)
C16_SameUserTurnsSerialized ==
    /\ \A t1, t2 \in inflight :
           (t1.user = t2.user /\ t1.stage = "invoke" /\ t2.stage = "invoke") => t1 = t2
    /\ \A t \in inflight :
           /\ t.stage = "invoke" =>
                  user_states[t.user] = Some(Entered(t.cmd, t.read, t.text))
           /\ t.stage = "reply" => user_states[t.user] = Some(t.turn.session)

C16_Witness ==
    \E t \in inflight :
        /\ t.stage = "invoke"
        /\ t.cmd = "more"
        /\ t.read.jobs_found = <<JobA, JobB>>
        /\ last.cmd = "search"
        /\ last.user = t.user

(***************************************************************************)
(* C17: jobs_found, search_query, location and the resume change only in   *)
(* the turns that own them: every customize, export, compose, chat, help   *)
(* and start turn (and a bare number or free text, which is a customize or *)
(* chat turn) leaves all four unchanged in the stored session, and the     *)
(* resume changes only on a successful file upload, to the uploaded text.  *)
(***************************************************************************)
Stored == get_user_state(user_states, resume_files, last.user)

C17_OwnedFieldsFrame ==
    /\ last.cmd \in {"customize", "export", "compose", "chat", "help", "start", "text"} =>
           /\ Cur.jobs_found = last.prev.jobs_found
           /\ Cur.search_query = last.prev.search_query
           /\ Cur.location = last.prev.location
           /\ Cur.base_resume = last.prev.base_resume
    /\ (IsTurn \/ last.cmd \in {"resume", "document"}) =>
           \/ Stored.base_resume = last.prev.base_resume
           \/ /\ last.cmd = "document"
              /\ last.response.kind = "ResumeUploaded"
              /\ Stored.base_resume = Some(last.text[1])

C17_Witness ==
    /\ last.cmd = "customize"
    /\ last.response.kind = "DocumentsGenerated"
    /\ Cur.customized_resume # last.prev.customized_resume
    /\ Cur.jobs_found = <<JobA, JobB>>
    /\ Cur.search_query = Some(<<"python">>)
    /\ Cur.base_resume = Some("resume-1")

C19_ExportStatus ==
    /\ (IsTurn /\ Cur.sheets_exported /\ ~last.prev.sheets_exported) =>
           /\ last.cmd = "export"
           /\ last.prev.jobs_found # <<>>
           /\ "ExportJobsBatch" \in last.calls
           /\ "ExportJobsBatch" \notin last.failed
           /\ last.response.kind = "Exported"
           /\ last.response.n >= 1
    /\ (last.cmd = "export" /\ last.prev.jobs_found = <<>>) =>
           /\ last.response.kind = "NoJobsToExport"
           /\ ~IsNone(last.error)
           /\ "ExportJobsBatch" \notin last.calls
           /\ Cur.sheets_exported = last.prev.sheets_exported
           /\ Cur.sheets_url = last.prev.sheets_url

C19_Witness ==
    /\ last.cmd = "export"
    /\ last.prev.jobs_found = <<>>
    /\ last.prev.sheets_exported
    /\ last.response.kind = "NoJobsToExport"
    /\ Cur.sheets_exported
    /\ Cur.sheets_url = Some("sheet")

(***************************************************************************)
(* C20: a fetch-more turn in a session that has no search_query and no     *)
(* /search command with arguments in its conversation history answers with *)
(* the run-search-first error, calls neither the query expansion nor a     *)
(* secondary search, and leaves jobs_found unchanged.                      *)
(***************************************************************************)
HasSearchWithArgs(messages) ==
    \E i \in 1..Len(messages) :
        /\ Len(messages[i].content) >= 2
        /\ Lower(messages[i].content[1]) = "/search"

C20_MoreNeedsQuery ==
    (/\ last.cmd = "more"
     /\ (IsNone(last.prev.search_query) \/ last.prev.search_query = Some(<<>>))
     /\ ~HasSearchWithArgs(last.prev.messages)) =>
        /\ last.response.kind = "NoPreviousSearch"
        /\ last.replies = reply_text(last.response)
        /\ ~IsNone(last.error)
        /\ last.calls = {}
        /\ Cur.jobs_found = last.prev.jobs_found

C20_Witness ==
    /\ last.cmd = "more"
    /\ IsNone(last.prev.search_query)
    /\ last.prev.messages = <<HumanMessage(<<"/search">>)>>
    /\ last.response.kind = "NoPreviousSearch"
    /\ last.calls = {}

(***************************************************************************)
(* C21: for every session and every integer n, sending the plain text n    *)
(* and sending /customize n produce the same user-facing response and the  *)
(* same resulting stored session.                                          *)
(***************************************************************************)
Numerals == {"-1", "0", "1", "2", "3"}

SameOutcome(a, b) ==
    /\ a.response = b.response
    /\ a.replies = b.replies
    /\ a.session = b.session

C21_NumberIsCustomizeShorthand ==
    \A u \in Users, n \in Numerals, gen \in GenOutcomes :
        LET ext == [NoExt EXCEPT !.gen = gen]
        IN  SameOutcome(handle_text(Session(u), <<n>>, ext),
                        customize_command(Session(u), <<"/customize", n>>, ext))

(***************************************************************************)
(* C22: for every customize response longer than 4000 characters, the      *)
(* messages sent are consecutive slices of the response, each non-empty    *)
(* and at most 4000 characters, all but the last exactly 4000, and their   *)
(* concatenation in send order is the response.                            *)
(***************************************************************************)
C22_ChunksRebuildResponse ==
    (last.node = "customizer" /\ last.response.len > ChunkLimit) =>
        LET r == last.replies
            n == Len(r)
        IN  /\ n >= 2
            /\ r[1].lo = 0
            /\ r[n].hi = last.response.len
            /\ \A i \in 1..(n - 1) : r[i + 1].lo = r[i].hi
            /\ \A i \in 1..n : r[i].hi - r[i].lo >= 1 /\ r[i].hi - r[i].lo <= ChunkLimit
            /\ \A i \in 1..(n - 1) : r[i].hi - r[i].lo = ChunkLimit

C22_Witness ==
    /\ last.node = "customizer"
    /\ last.response.len = 2 * ChunkLimit + 729
    /\ Len(last.replies) = 3
    /\ last.replies[3] = [lo |-> 2 * ChunkLimit, hi |-> 2 * ChunkLimit + 729]

(***************************************************************************)
(* C23: for every command no single text handed to the transport is longer *)
(* than the 4000-character limit: a longer response is always split        *)
(* before delivery.                                                        *)
(***************************************************************************)
C23_NoTextOverLimit ==
    IsTurn => \A i \in 1..Len(last.replies) :
                  last.replies[i].hi - last.replies[i].lo <= ChunkLimit

(***************************************************************************)
(* C24: every turn runs at most one handler: the one named after the       *)
(* parser's action for search, customize, export, chat, more and compose,  *)
(* none for help and start; no handler runs another one.  As stated, a     *)
(* turn without handler ends with the help or the start text; in the code  *)
(* it ends with the text the parser attached to the action, which is also  *)
(* the usage message of a malformed /search or /customize.                 *)
(***************************************************************************)
HandlerOf(action) ==
    CASE action = "search" -> "job_search"
      [] action = "customize" -> "customizer"
      [] action = "export" -> "exporter"
      [] action = "chat" -> "chat"
      [] action = "more" -> "more"
      [] action = "compose" -> "composer"
      [] OTHER -> "END"

CollaboratorsOf(node) ==
    CASE node = "job_search" -> {"SearchJobs"}
      [] node = "customizer" -> Generators
      [] node = "exporter" ->
           {"SheetsWriter", "ExportJobsBatch", "GetExportTargetUrl"}
      [] node = "chat" -> {"Chat"}
      [] node = "more" -> {"ExpandQuery", "SearchRemotive", "SearchGoogle"}
      [] node = "composer" -> {"ComposeDocument"}
      [] OTHER -> {}

ParserTexts ==
    {"HELP_MESSAGE", "START_MESSAGE", "SearchUsage", "CustomizeUsage",
     "CustomizeBadNumber"}

OneHandler(texts) ==
    IsTurn =>
        /\ last.action \in {"search", "customize", "export", "chat", "more",
                            "compose", "help", "start"}
        /\ last.node = HandlerOf(last.action)
        /\ last.calls \subseteq CollaboratorsOf(last.node)
        /\ last.node = "END" =>
               /\ last.action \in {"help", "start"}
               /\ last.response.kind \in texts
               /\ ~last.raised
               /\ SameExceptHistory(Cur, last.prev)

C24_Original == OneHandler({"HELP_MESSAGE", "START_MESSAGE"})

C24_OneHandlerPerTurn == OneHandler(ParserTexts)

C24_Witness ==
    /\ last.cmd = "customize"
    /\ last.action = "help"
    /\ last.node = "END"
    /\ last.response.kind = "CustomizeBadNumber"
    /\ Len(last.replies) = 1

(***************************************************************************)
(* C25: the customize handler calls the generators only when an index is   *)
(* selected, the job list is not empty, the index is in range and a resume *)
(* is present; otherwise it returns one error, the first in the order      *)
(* no-index, no-jobs, out-of-range, no-resume, each with its own message,  *)
(* and sets neither document.  Stated for the handler applied to every     *)
(* reachable session with every index and resume, and for the turns run.   *)
(***************************************************************************)
IndexChoices == {None, Some(-1), Some(0), Some(1), Some(2), Some(3)}

ResumeChoices == {None, Some(""), Some("resume-1")}

FirstMissing(state) ==
    IF IsNone(state.selected_job_index) THEN "NoJobSelected"
    ELSE IF state.jobs_found = <<>> THEN "NoJobsInResults"
    ELSE IF state.selected_job_index[1] \notin 0..(Len(state.jobs_found) - 1)
    THEN "InvalidJobNumber"
    ELSE IF ~Truthy(state.base_resume) THEN "NoResume"
    ELSE "none"

RejectKinds == {"NoJobSelected", "NoJobsInResults", "InvalidJobNumber", "NoResume"}

C25_CustomizePreconditions ==
    /\ \A u \in Users, i \in IndexChoices, r \in ResumeChoices, gen \in GenOutcomes :
           LET state == [Session(u) EXCEPT !.selected_job_index = i,
                                           !.base_resume = r]
               res == customizer_node(state, gen)
           IN  IF FirstMissing(state) = "none"
               THEN "GenerateCustomizedResume" \in res.calls
               ELSE /\ res.calls = {}
                    /\ ~res.raised
                    /\ res.delta.response.kind = FirstMissing(state)
                    /\ ~IsNone(res.delta.error)
                    /\ DOMAIN res.delta = {"response", "error"}
    /\ last.node = "customizer" =>
           /\ last.calls \cap Generators # {} =>
                  /\ last.prev.jobs_found # <<>>
                  /\ IntOf(NumberToken) \in 1..Len(last.prev.jobs_found)
                  /\ Truthy(last.prev.base_resume)
           /\ last.response.kind \in RejectKinds =>
                  /\ last.calls = {}
                  /\ Cur.customized_resume = last.prev.customized_resume
                  /\ Cur.cover_letter = last.prev.cover_letter

C25_Witness ==
    /\ last.node = "customizer"
    /\ last.response.kind = "InvalidJobNumber"
    /\ last.prev.jobs_found # <<>>
    /\ ~Truthy(last.prev.base_resume)
    /\ last.calls = {}

(***************************************************************************)
(* C26: whatever lists the secondary sources return, one fetch-more turn   *)
(* appends at most 20 jobs to jobs_found.                                  *)
(***************************************************************************)
C26_MoreAppendsAtMostCap ==
    last.cmd = "more" =>
        /\ IsPrefix(last.prev.jobs_found, Cur.jobs_found)
        /\ Len(Appended) <= 20
        /\ last.response.kind = "MoreResults" => last.response.n = Len(Appended)

C26_Witness ==
    /\ last.cmd = "more"
    /\ last.prev.jobs_found # <<>>
    /\ Len(Appended) = 20
    /\ Appended[1].link = "r1"
    /\ Appended[14].link = "g4"
    /\ Appended[20].link = "h6"

(***************************************************************************)
(* C27: every job number k shown in a search listing or a fetch-more       *)
(* listing is the index of that job in the stored jobs_found plus one, the *)
(* fetch-more numbers continuing from the length the list had, and a       *)
(* /customize k sent as the next turn selects the job shown with number k. *)
(***************************************************************************)
Shown == last.response.items

CustomizeNext(k) ==
    customize_command(Session(last.user), <<"/customize", StrOf(k)>>,
                      [NoExt EXCEPT !.gen = GenOk])

C27_ShownNumberSelectsJob ==
    (last.cmd \in {"search", "more"} /\ Shown # <<>>) =>
        /\ Shown[1].num = IF last.cmd = "more"
                          THEN Len(last.prev.jobs_found) + 1 ELSE 1
        /\ \A i \in 1..Len(Shown) :
               /\ Shown[i].num = Shown[1].num + i - 1
               /\ Shown[i].num \in 1..Len(Cur.jobs_found)
               /\ Cur.jobs_found[Shown[i].num] = Shown[i].job
               /\ IF Truthy(Cur.base_resume)
                  THEN /\ CustomizeNext(Shown[i].num).session.selected_job
                              = Some(Shown[i].job)
                       /\ CustomizeNext(Shown[i].num).response.kind
                              = "DocumentsGenerated"
                  ELSE CustomizeNext(Shown[i].num).response.kind = "NoResume"

C27_Witness ==
    /\ last.cmd = "more"
    /\ Len(last.prev.jobs_found) = 10
    /\ Len(Shown) = 2
    /\ Shown[1].num = 11
    /\ Shown[2] = [num |-> 12, job |-> JobD]
    /\ Truthy(Cur.base_resume)
    /\ CustomizeNext(12).session.selected_job = Some(JobD)

(***************************************************************************)
(* C28: a compose turn whose handler reports an error (documents missing,  *)
(* file not created, or ComposeDocument failing) delivers no file in that  *)
(* turn, also when an earlier compose turn of the session succeeded.       *)
(***************************************************************************)
C28_NoFileOnComposeError ==
    (last.cmd = "compose" /\ ~IsNone(last.error)) => IsNone(last.document)

(***************************************************************************)
(* C29: whenever a fetch-more turn recovers its query from the last        *)
(* /search message of the conversation history, the recovered query is the *)
(* keywords the command parser extracts from that same message.            *)
(***************************************************************************)
SearchMessages(messages) ==
    {i \in 1..Len(messages) :
        /\ StartsWith(messages[i].content, "/search")
        /\ ArgsOf(messages[i].content, "/search") # <<>>}

LastSearchMessage(messages) ==
    messages[CHOOSE i \in SearchMessages(messages) :
                 \A j \in SearchMessages(messages) : j <= i]

Recovers ==
    /\ last.cmd = "more"
    /\ last.prev.search_query \in {None, Some(<<>>)}
    /\ SearchMessages(last.prev.messages) # {}

C29_RecoveredQueryIsParsed ==
    Recovers =>
        last_search_query(last.prev.messages)
            = router_search(LowerAll(LastSearchMessage(last.prev.messages).content)).search_query

(***************************************************************************)
(* C30: in every session in which customized_resume and cover_letter are   *)
(* present, the job they were generated for is an entry of the current     *)
(* jobs_found, so that no compose turn builds a document for a job a later *)
(* fresh search has removed.                                               *)
(***************************************************************************)
InJobs(job, jobs) == \E i \in 1..Len(jobs) : jobs[i] = job

C30_DocumentsJobIsListed ==
    \A u \in AllUsers :
        (/\ ~IsNone(user_states[u])
         /\ Truthy(user_states[u][1].customized_resume)
         /\ Truthy(user_states[u][1].cover_letter)) =>
            /\ ~IsNone(user_states[u][1].selected_job)
            /\ InJobs(user_states[u][1].selected_job[1], user_states[u][1].jobs_found)

====
